---- MODULE Spec2Model ----
(***************************************************************************)
(* Server actions of the "socially" application (post.action): createPost, *)
(* getPosts, toggleLike, createComment and deletePost, run by concurrent   *)
(* requests against one relational store (Post, Like, Comment and          *)
(* Notification rows).  Every `await` of a handler is one atomic step of   *)
(* the request that runs it; the synchronous code that follows an await    *)
(* (checks, throw, catch, revalidatePath, return) belongs to the step that *)
(* resumes there.  A store call either takes effect atomically or rejects. *)
(***************************************************************************)
EXTENDS Integers, Sequences, FiniteSets

VARIABLES
  posts,          \* Post rows: [id, authorId, content, image]
  likes,          \* Like rows, as a count per <<userId, postId>> key
  comments,       \* Comment rows: [id, content, authorId, postId]
  notifications,  \* Notification rows: [id, type, userId, creatorId, postId, commentId]
  nextId,         \* [post, comment, notification]: the next generated identifier
  calls,          \* per request: the handler it runs, its position, locals, outcome
  started,        \* number of handler invocations so far
  toggles         \* history of toggleLike per <<user, post>>: returned calls, in sequence or not

vars == <<posts, likes, comments, notifications, nextId, calls, started, toggles>>

rows == <<posts, likes, comments, notifications>>

-----------------------------------------------------------------------------
(* Bounds and input domains *)

MaxPosts == 1

MaxCalls == 3

Requests == {"r1", "r2"}

Users == {"u1", "u2"}

NULL == "null"

Identities == Users \cup {NULL}

PostIds == 1 .. MaxPosts

\* comment texts: the empty string and a whitespace-only one (the handler tells
\* no two non-empty strings apart)
Contents == {"", " "}

Images == {""}

PostContents == {"hi"}

LikeKeys == Users \X PostIds

-----------------------------------------------------------------------------
(* Values of the source *)

\* `!v` of a string or of a nullable identifier
Falsy(v) == v = "" \/ v = NULL

None == <<>>

Some(v) == <<v>>

Unwrap(o) == o[1]

PostNotFound == "Post not found"

ContentRequired == "Content is required"

Unauthorized == "Unauthorized - no delete permission"

FetchFailed == "Failed in fetch posts"

\* rejections of the store client and of the identity resolver
UniqueViolation == "P2002"

ForeignKeyViolation == "P2003"

RecordNotFound == "P2025"

ClientFault == "client fault"

ResolverFault == "getDbUserId failed"

Pending == [kind |-> "pending", success |-> FALSE, error |-> "", data |-> <<>>]

Undefined == [kind |-> "undefined", success |-> FALSE, error |-> "", data |-> <<>>]

Ok(data) == [kind |-> "envelope", success |-> TRUE, error |-> "", data |-> data]

Fail(error) == [kind |-> "envelope", success |-> FALSE, error |-> error, data |-> <<>>]

Raised(error) == [kind |-> "raised", success |-> FALSE, error |-> error, data |-> <<>>]

\* variant: a catch block that throws the error again
Rethrown(op, message) == Raised(message)

\* the value each catch block returns (or re-raises) for a thrown `message`
CatchResult(op, message) ==
  CASE op = "createPost"    -> Fail(message)
    [] op = "getPosts"      -> Raised(FetchFailed)
    [] op = "toggleLike"    -> Fail("Failed to toggle like")
    [] op = "createComment" -> Fail("Failed to create comment")
    [] op = "deletePost"    -> Fail("Failed to delete post")

Idle ==
  [op |-> "none", pc |-> "done", caller |-> NULL, postId |-> 1, content |-> "",
   image |-> "", userId |-> NULL, existingLike |-> FALSE, post |-> None,
   created |-> <<>>,
   result |-> Pending, logged |-> "", revalidated |-> 0, wrote |-> FALSE,
   live |-> FALSE]

-----------------------------------------------------------------------------
(* The store *)

PostRow(id) == {p \in posts : p.id = id}

PostExists(id) == PostRow(id) # {}

\* prisma.post.findUnique({where: {id}, select: {authorId: true}})
FindPost(id) ==
  IF PostExists(id)
    THEN Some([authorId |-> (CHOOSE p \in PostRow(id) : TRUE).authorId])
    ELSE None

\* prisma.like.findUnique({where: {userId_postId}})
FindLike(userId, postId) == likes[<<userId, postId>>] > 0


db == [likes |-> likes, comments |-> comments, notifications |-> notifications,
       nextId |-> nextId]

\* variant: no unique key on <<userId, postId>>
LikeKeyUnchecked(d, userId, postId) == TRUE

\* @@unique([userId, postId]) behind the userId_postId key: a second row is rejected
LikeKeyFree(d, userId, postId) == d.likes[<<userId, postId>>] = 0

LikeCreate(userId, postId) ==
  [table |-> "like", data |-> [userId |-> userId, postId |-> postId]]

NotificationCreate(type, recipient, creatorId, postId, commentId) ==
  [table |-> "notification",
   data |-> [type |-> type, userId |-> recipient, creatorId |-> creatorId,
             postId |-> postId, commentId |-> commentId]]

CommentCreate(content, authorId, postId) ==
  [table |-> "comment",
   data |-> [content |-> content, authorId |-> authorId, postId |-> postId]]

\* one create statement against the store `d`: the rows after it, or its rejection
Apply(d, stmt) ==
  LET x == stmt.data IN
  CASE ~PostExists(x.postId) ->
         [ok |-> FALSE, error |-> ForeignKeyViolation, db |-> d]
    [] PostExists(x.postId) /\ stmt.table = "like" ->
         IF LikeKeyFree(d, x.userId, x.postId)
           THEN [ok |-> TRUE, error |-> "",
                 db |-> [d EXCEPT !.likes[<<x.userId, x.postId>>] = @ + 1]]
           ELSE [ok |-> FALSE, error |-> UniqueViolation, db |-> d]
    [] PostExists(x.postId) /\ stmt.table = "comment" ->
         [ok |-> TRUE, error |-> "",
          db |-> [d EXCEPT
                    !.comments = @ \cup {[id |-> d.nextId.comment,
                                          content |-> x.content,
                                          authorId |-> x.authorId,
                                          postId |-> x.postId]},
                    !.nextId.comment = @ + 1]]
    [] PostExists(x.postId) /\ stmt.table = "notification" ->
         IF x.commentId = 0 \/ \E c \in d.comments : c.id = x.commentId
           THEN [ok |-> TRUE, error |-> "",
                 db |-> [d EXCEPT
                           !.notifications = @ \cup {[id |-> d.nextId.notification,
                                                      type |-> x.type,
                                                      userId |-> x.userId,
                                                      creatorId |-> x.creatorId,
                                                      postId |-> x.postId,
                                                      commentId |-> x.commentId]},
                           !.nextId.notification = @ + 1]]
           ELSE [ok |-> FALSE, error |-> ForeignKeyViolation, db |-> d]

\* the statements from the i-th on, in order, stopping at the first rejection;
\* failAt > 0 is a client fault at that statement
RECURSIVE Run(_, _, _, _)
Run(d, stmts, failAt, i) ==
  IF i > Len(stmts) THEN [ok |-> TRUE, error |-> "", db |-> d]
  ELSE IF i = failAt THEN [ok |-> FALSE, error |-> ClientFault, db |-> d]
  ELSE LET r == Apply(d, stmts[i]) IN
       IF r.ok THEN Run(r.db, stmts, failAt, i + 1) ELSE r

\* what a $transaction leaves when some statement was rejected
RolledBack(before, r) == [r EXCEPT !.db = before]

\* variant: the statements before the rejected one stay written
PartialCommit(before, r) == r

TransactionOutcome(before, r) == IF r.ok THEN r ELSE RolledBack(before, r)

\* prisma.$transaction(...): all statements or none
Transaction(d, stmts, failAt) == TransactionOutcome(d, Run(d, stmts, failAt, 1))

Commit(r) ==
  /\ likes' = r.db.likes
  /\ comments' = r.db.comments
  /\ notifications' = r.db.notifications
  /\ nextId' = r.db.nextId

\* rows that reference a post go with it (onDelete: Cascade of the schema)
Cascade(postId) ==
  /\ likes' = [k \in LikeKeys |-> IF k[2] = postId THEN 0 ELSE likes[k]]
  /\ comments' = {c \in comments : c.postId # postId}
  /\ notifications' = {n \in notifications : n.postId # postId}

-----------------------------------------------------------------------------
(* Steps shared by the handlers *)

At(r, op, pc) == calls[r].op = op /\ calls[r].pc = pc

\* variant: revalidatePath in the catch block as well
CaughtAndRevalidated(c, message) ==
  [c EXCEPT !.pc = "done", !.result = CatchResult(c.op, message), !.logged = message,
            !.revalidated = @ + 1]

\* catch (error) { console.error(...); return {success: false, error} }
Caught(c, message) ==
  [c EXCEPT !.pc = "done", !.result = CatchResult(c.op, message), !.logged = message]

\* if (!userId) return;
ReturnUndefined(c) == [c EXCEPT !.pc = "done", !.result = Undefined]

\* revalidatePath("/"); return {success: true, ...}
Revalidated(c, data) ==
  [c EXCEPT !.pc = "done", !.revalidated = @ + 1, !.result = Ok(data)]

\* the toggleLike history of a user whose identity was resolved, after a step
\* that leaves the call as `c`: `ok` counts the calls that returned success,
\* `all` counts those and the failed calls on a post that existed when the call
\* began
Tracked(t, c) ==
  LET k == <<c.caller, c.postId>>
      counted == c.result.success \/ c.live IN
  IF c.op = "toggleLike" /\ c.pc = "done" /\ c.userId \in Users
    THEN [t EXCEPT ![k].all = IF counted THEN @ + 1 ELSE @,
                   ![k].ok = IF c.result.success THEN @ + 1 ELSE @]
    ELSE t

Track(r) == toggles' = Tracked(toggles, calls'[r])

\* a second toggleLike of the same user on the same post begins before the first returned
Overlaps(r, caller, postId) ==
  \E q \in Requests \ {r} :
    /\ calls[q].op = "toggleLike" /\ calls[q].pc # "done"
    /\ calls[q].caller = caller /\ calls[q].postId = postId

\* a request arrives: r2 serves a call only while r1 is busy with another
Arrives(r) ==
  /\ calls[r].pc = "done"
  /\ started < MaxCalls
  /\ r # "r1" => calls["r1"].pc # "done"
  /\ started' = started + 1

\* the handler's frame on entry
Entered(op, caller, postId, content, image) ==
  [Idle EXCEPT !.op = op, !.pc = "entry", !.caller = caller, !.postId = postId,
               !.content = content, !.image = image, !.live = PostExists(postId)]

-----------------------------------------------------------------------------
(* createPost *)

\* const userId = await getDbUserId(); if (!userId) return;
CreatePost(r, caller, content, image) ==
  /\ Arrives(r)
  /\ \E fault \in BOOLEAN :
       LET c == Entered("createPost", caller, 1, content, image) IN
       calls' = [calls EXCEPT ![r] =
         IF fault THEN Caught(c, ResolverFault)
         ELSE IF Falsy(c.caller) THEN ReturnUndefined([c EXCEPT !.userId = c.caller])
         ELSE [c EXCEPT !.userId = c.caller, !.pc = "create"]]
  /\ Track(r)
  /\ UNCHANGED <<posts, likes, comments, notifications, nextId>>

\* await prisma.post.create({data: {content, image, authorId: userId}})
CreatePostCreate(r) ==
  /\ At(r, "createPost", "create")
  /\ \E fault \in BOOLEAN :
       IF fault \/ nextId.post > MaxPosts
         THEN /\ calls' = [calls EXCEPT ![r] = Caught(calls[r], ClientFault)]
              /\ UNCHANGED <<posts, nextId>>
         ELSE /\ posts' = posts \cup {[id |-> nextId.post,
                                      authorId |-> calls[r].userId,
                                      content |-> calls[r].content,
                                      image |-> calls[r].image]}
              /\ nextId' = [nextId EXCEPT !.post = @ + 1]
              /\ calls' = [calls EXCEPT ![r] =
                   [calls[r] EXCEPT !.pc = "revalidate", !.wrote = TRUE,
                             !.created = <<nextId.post>>]]
  /\ Track(r)
  /\ UNCHANGED <<likes, comments, notifications, started>>

\* revalidatePath("/"); return {success: true, post: {...}}
CreatePostReturn(r) ==
  /\ At(r, "createPost", "revalidate")
  /\ calls' = [calls EXCEPT ![r] = Revalidated(calls[r], calls[r].created)]
  /\ Track(r)
  /\ UNCHANGED <<posts, likes, comments, notifications, nextId, started>>

-----------------------------------------------------------------------------
(* getPosts *)

\* posts by createdAt descending (identifiers are generated in creation order)
RECURSIVE OrderDesc(_)
OrderDesc(S) ==
  IF S = {} THEN <<>>
  ELSE LET m == CHOOSE p \in S : \A q \in S : q.id <= p.id
       IN <<m.id>> \o OrderDesc(S \ {m})

\* await prisma.post.findMany({orderBy: {createdAt: "desc"}, ...}); a rejection is
\* logged and thrown again as Error("Failed in fetch posts")
GetPosts(r) ==
  /\ Arrives(r)
  /\ \E fault \in BOOLEAN :
       LET c == Entered("getPosts", NULL, 1, "", "") IN
       calls' = [calls EXCEPT ![r] =
         IF fault THEN Caught(c, ClientFault)
         ELSE [c EXCEPT !.pc = "done",
                        !.result = [kind |-> "posts", success |-> TRUE, error |-> "",
                                    data |-> OrderDesc(posts)]]]
  /\ Track(r)
  /\ UNCHANGED <<posts, likes, comments, notifications, nextId>>

-----------------------------------------------------------------------------
(* toggleLike *)

\* const userId = await getDbUserId(); if (!userId) return;
ToggleLike(r, caller, postId) ==
  /\ Arrives(r)
  /\ \E fault \in BOOLEAN :
       LET c == Entered("toggleLike", caller, postId, "", "") IN
       calls' = [calls EXCEPT ![r] =
         IF fault THEN Caught(c, ResolverFault)
         ELSE IF Falsy(c.caller) THEN ReturnUndefined([c EXCEPT !.userId = c.caller])
         ELSE [c EXCEPT !.userId = c.caller, !.pc = "findLike"]]
  /\ toggles' = Tracked(IF caller \in Users /\ Overlaps(r, caller, postId)
                          THEN [toggles EXCEPT ![<<caller, postId>>].seq = FALSE]
                          ELSE toggles,
                        calls'[r])
  /\ UNCHANGED <<posts, likes, comments, notifications, nextId>>

\* const existingLike = await prisma.like.findUnique(...)
ToggleLikeFindLike(r) ==
  /\ At(r, "toggleLike", "findLike")
  /\ \E fault \in BOOLEAN :
       calls' = [calls EXCEPT ![r] =
         IF fault THEN Caught(calls[r], ClientFault)
         ELSE [calls[r] EXCEPT !.existingLike = FindLike(calls[r].userId, calls[r].postId),
                        !.pc = "findPost"]]
  /\ Track(r)
  /\ UNCHANGED <<posts, likes, comments, notifications, nextId, started>>

\* const post = await prisma.post.findUnique(...); if (!post) throw ...
ToggleLikeFindPost(r) ==
  /\ At(r, "toggleLike", "findPost")
  /\ \E fault \in BOOLEAN :
       calls' = [calls EXCEPT ![r] =
         IF fault THEN Caught(calls[r], ClientFault)
         ELSE IF FindPost(calls[r].postId) = None
           THEN Caught([calls[r] EXCEPT !.post = None], PostNotFound)
         ELSE [calls[r] EXCEPT !.post = FindPost(calls[r].postId), !.pc = "write"]]
  /\ Track(r)
  /\ UNCHANGED <<posts, likes, comments, notifications, nextId, started>>

\* variant: the notification without the authorId !== userId condition
LikeNotificationsAlways(post, userId, postId) ==
  <<NotificationCreate("LIKE", post.authorId, userId, postId, 0)>>

\* variant: no second notification for a creator and post already notified
LikeNotificationsOnce(post, userId, postId) ==
  IF post.authorId # userId
       /\ ~\E n \in notifications :
             n.type = "LIKE" /\ n.creatorId = userId /\ n.postId = postId
    THEN <<NotificationCreate("LIKE", post.authorId, userId, postId, 0)>>
    ELSE <<>>

\* ...(post.authorId !== userId ? [prisma.notification.create({type: "LIKE", ...})] : [])
LikeNotifications(post, userId, postId) ==
  IF post.authorId # userId
    THEN <<NotificationCreate("LIKE", post.authorId, userId, postId, 0)>>
    ELSE <<>>

\* variant: a delete that removes nothing
UnlikeKeepsRow(ls, userId, postId) == ls

\* prisma.like.delete({where: {userId_postId}}): the key's row goes, nothing else
Unlike(ls, userId, postId) == [ls EXCEPT ![<<userId, postId>>] = @ - 1]

\* if (existingLike) { await prisma.like.delete(...) }
ToggleLikeUnlike(r) ==
  /\ At(r, "toggleLike", "write")
  /\ calls[r].existingLike
  /\ \E fault \in BOOLEAN :
       IF fault \/ ~FindLike(calls[r].userId, calls[r].postId)
         THEN /\ calls' = [calls EXCEPT ![r] =
                   Caught(calls[r], IF fault THEN ClientFault ELSE RecordNotFound)]
              /\ UNCHANGED likes
         ELSE /\ likes' = Unlike(likes, calls[r].userId, calls[r].postId)
              /\ calls' = [calls EXCEPT ![r] =
                   [calls[r] EXCEPT !.pc = "revalidate", !.wrote = TRUE]]
  /\ Track(r)
  /\ UNCHANGED <<posts, comments, notifications, nextId, started>>

\* else { await prisma.$transaction([prisma.like.create(...), ...]) }
ToggleLikeLike(r) ==
  /\ At(r, "toggleLike", "write")
  /\ ~calls[r].existingLike
  /\ LET c == calls[r]
         stmts == <<LikeCreate(c.userId, c.postId)>>
                    \o LikeNotifications(Unwrap(c.post), c.userId, c.postId)
     IN \E failAt \in 0 .. Len(stmts) :
          LET t == Transaction(db, stmts, failAt) IN
          /\ Commit(t)
          /\ calls' = [calls EXCEPT ![r] =
               IF t.ok THEN [calls[r] EXCEPT !.pc = "revalidate", !.wrote = TRUE]
               ELSE Caught(calls[r], t.error)]
  /\ Track(r)
  /\ UNCHANGED <<posts, started>>

\* revalidatePath("/"); return {success: true}
ToggleLikeReturn(r) ==
  /\ At(r, "toggleLike", "revalidate")
  /\ calls' = [calls EXCEPT ![r] = Revalidated(calls[r], <<>>)]
  /\ Track(r)
  /\ UNCHANGED <<posts, likes, comments, notifications, nextId, started>>

-----------------------------------------------------------------------------
(* createComment *)

\* variant: no content check
ContentNeverMissing(content) == FALSE

\* if (!content) throw new Error("Content is required")
ContentMissing(content) == Falsy(content)

\* const userId = await getDbUserId(); if (!userId) return; if (!content) throw ...
CreateComment(r, caller, postId, content) ==
  /\ Arrives(r)
  /\ \E fault \in BOOLEAN :
       LET c == Entered("createComment", caller, postId, content, "") IN
       calls' = [calls EXCEPT ![r] =
         IF fault THEN Caught(c, ResolverFault)
         ELSE IF Falsy(c.caller) THEN ReturnUndefined([c EXCEPT !.userId = c.caller])
         ELSE IF ContentMissing(c.content)
           THEN Caught([c EXCEPT !.userId = c.caller], ContentRequired)
         ELSE [c EXCEPT !.userId = c.caller, !.pc = "findPost"]]
  /\ Track(r)
  /\ UNCHANGED <<posts, likes, comments, notifications, nextId>>

\* const post = await prisma.post.findUnique(...); if (!post) throw ...
CreateCommentFindPost(r) ==
  /\ At(r, "createComment", "findPost")
  /\ \E fault \in BOOLEAN :
       calls' = [calls EXCEPT ![r] =
         IF fault THEN Caught(calls[r], ClientFault)
         ELSE IF FindPost(calls[r].postId) = None
           THEN Caught([calls[r] EXCEPT !.post = None], PostNotFound)
         ELSE [calls[r] EXCEPT !.post = FindPost(calls[r].postId), !.pc = "write"]]
  /\ Track(r)
  /\ UNCHANGED <<posts, likes, comments, notifications, nextId, started>>

\* variant: the notification without its commentId
NoCommentId(newCommentId) == 0

\* commentId: newComment.id
NotifiedCommentId(newCommentId) == newCommentId

\* if (post.authorId !== userId) { await tx.notification.create({type: "COMMENT", ...}) }
CommentNotifications(post, userId, postId, newCommentId) ==
  IF post.authorId # userId
    THEN <<NotificationCreate("COMMENT", post.authorId, userId, postId,
                              NotifiedCommentId(newCommentId))>>
    ELSE <<>>

\* await prisma.$transaction(async (tx) => { tx.comment.create; tx.notification.create })
CreateCommentWrite(r) ==
  /\ At(r, "createComment", "write")
  /\ LET c == calls[r]
         stmts == <<CommentCreate(c.content, c.userId, c.postId)>>
                    \o CommentNotifications(Unwrap(c.post), c.userId, c.postId,
                                            nextId.comment)
     IN \E failAt \in 0 .. Len(stmts) :
          LET t == Transaction(db, stmts, failAt) IN
          /\ Commit(t)
          /\ calls' = [calls EXCEPT ![r] =
               IF t.ok THEN [calls[r] EXCEPT !.pc = "revalidate", !.wrote = TRUE,
                                      !.created = <<nextId.comment>>]
               ELSE Caught(calls[r], t.error)]
  /\ Track(r)
  /\ UNCHANGED <<posts, started>>

\* revalidatePath(`/`); return {success: true, comment}
CreateCommentReturn(r) ==
  /\ At(r, "createComment", "revalidate")
  /\ calls' = [calls EXCEPT ![r] = Revalidated(calls[r], calls[r].created)]
  /\ Track(r)
  /\ UNCHANGED <<posts, likes, comments, notifications, nextId, started>>

-----------------------------------------------------------------------------
(* deletePost *)

\* const userId = await getDbUserId();
DeletePost(r, caller, postId) ==
  /\ Arrives(r)
  /\ \E fault \in BOOLEAN :
       LET c == Entered("deletePost", caller, postId, "", "") IN
       calls' = [calls EXCEPT ![r] =
         IF fault THEN Caught(c, ResolverFault)
         ELSE [c EXCEPT !.userId = c.caller, !.pc = "findPost"]]
  /\ Track(r)
  /\ UNCHANGED <<posts, likes, comments, notifications, nextId>>

\* variant: the ownership check skipped when no identity was resolved
DeleteAuthorizedOrAnonymous(post, userId) == post.authorId = userId \/ Falsy(userId)

\* if (post.authorId !== userId) throw new Error("Unauthorized - no delete permission")
DeleteAuthorized(post, userId) == post.authorId = userId

\* const post = await prisma.post.findUnique(...); if (!post) throw ...; if (...) throw ...
DeletePostFindPost(r) ==
  /\ At(r, "deletePost", "findPost")
  /\ \E fault \in BOOLEAN :
       calls' = [calls EXCEPT ![r] =
         IF fault THEN Caught(calls[r], ClientFault)
         ELSE IF FindPost(calls[r].postId) = None
           THEN Caught([calls[r] EXCEPT !.post = None], PostNotFound)
         ELSE IF ~DeleteAuthorized(Unwrap(FindPost(calls[r].postId)), calls[r].userId)
           THEN Caught([calls[r] EXCEPT !.post = FindPost(calls[r].postId)], Unauthorized)
         ELSE [calls[r] EXCEPT !.post = FindPost(calls[r].postId), !.pc = "write"]]
  /\ Track(r)
  /\ UNCHANGED <<posts, likes, comments, notifications, nextId, started>>

\* await prisma.post.delete({where: {id: postId}})
DeletePostDelete(r) ==
  /\ At(r, "deletePost", "write")
  /\ \E fault \in BOOLEAN :
       IF fault \/ ~PostExists(calls[r].postId)
         THEN /\ calls' = [calls EXCEPT ![r] =
                   Caught(calls[r], IF fault THEN ClientFault ELSE RecordNotFound)]
              /\ UNCHANGED <<posts, likes, comments, notifications>>
         ELSE /\ posts' = posts \ PostRow(calls[r].postId)
              /\ Cascade(calls[r].postId)
              /\ calls' = [calls EXCEPT ![r] =
                   [calls[r] EXCEPT !.pc = "revalidate", !.wrote = TRUE]]
  /\ Track(r)
  /\ UNCHANGED <<nextId, started>>

\* revalidatePath("/"); return {success: true}
DeletePostReturn(r) ==
  /\ At(r, "deletePost", "revalidate")
  /\ calls' = [calls EXCEPT ![r] = Revalidated(calls[r], <<>>)]
  /\ Track(r)
  /\ UNCHANGED <<posts, likes, comments, notifications, nextId, started>>

-----------------------------------------------------------------------------
(* The system *)

\* the store holds no rows, or one post written by an earlier createPost
Init ==
  /\ \/ posts = {} /\ nextId = [post |-> 1, comment |-> 1, notification |-> 1]
     \/ /\ posts = {[id |-> 1, authorId |-> "u1", content |-> "hi", image |-> ""]}
        /\ nextId = [post |-> 2, comment |-> 1, notification |-> 1]
  /\ likes = [k \in LikeKeys |-> 0]
  /\ comments = {}
  /\ notifications = {}
  /\ calls = [r \in Requests |-> Idle]
  /\ started = 0
  /\ toggles = [k \in LikeKeys |-> [all |-> 0, ok |-> 0, seq |-> TRUE]]

Next ==
  \E r \in Requests :
    \/ \E caller \in Identities, content \in PostContents, image \in Images :
         CreatePost(r, caller, content, image)
    \/ CreatePostCreate(r)
    \/ CreatePostReturn(r)
    \/ GetPosts(r)
    \/ \E caller \in Identities, postId \in PostIds : ToggleLike(r, caller, postId)
    \/ ToggleLikeFindLike(r)
    \/ ToggleLikeFindPost(r)
    \/ ToggleLikeUnlike(r)
    \/ ToggleLikeLike(r)
    \/ ToggleLikeReturn(r)
    \/ \E caller \in Identities, postId \in PostIds, content \in Contents :
         CreateComment(r, caller, postId, content)
    \/ CreateCommentFindPost(r)
    \/ CreateCommentWrite(r)
    \/ CreateCommentReturn(r)
    \/ \E caller \in Identities, postId \in PostIds : DeletePost(r, caller, postId)
    \/ DeletePostFindPost(r)
    \/ DeletePostDelete(r)
    \/ DeletePostReturn(r)

Spec == Init /\ [][Next]_vars

-----------------------------------------------------------------------------
(* Vocabulary of the properties *)

Mutations == {"createPost", "toggleLike", "createComment", "deletePost"}

Done(r, op) == calls[r].op = op /\ calls[r].pc = "done"

AuthorOf(postId) == (CHOOSE p \in PostRow(postId) : TRUE).authorId

Liked(k) == likes[k] > 0

InFlight(k) ==
  \E r \in Requests :
    /\ calls[r].op = "toggleLike" /\ calls[r].pc # "done"
    /\ calls[r].caller = k[1] /\ calls[r].postId = k[2]

LikeNotes(creatorId, postId) ==
  {n \in notifications :
     n.type = "LIKE" /\ n.creatorId = creatorId /\ n.postId = postId}

Blank(content) == content \in {"", " "}

-----------------------------------------------------------------------------
(* C1: deletePost and the caller's identity *)

C1_Returned ==
  \A r \in Requests :
    Done(r, "deletePost") =>
      /\ calls[r].result.kind = "envelope"
      /\ ~calls[r].result.success =>
           calls[r].result = Fail("Failed to delete post") /\ ~calls[r].wrote
      /\ calls[r].post # None =>
           LET author == Unwrap(calls[r].post).authorId IN
           /\ calls[r].result.success =>
                calls[r].userId = author /\ ~PostExists(calls[r].postId)
           /\ calls[r].userId # author =>
                ~calls[r].result.success /\ calls[r].logged = Unauthorized
           /\ calls[r].userId = author =>
                \/ calls[r].result.success
                \/ calls[r].logged \in {ClientFault, RecordNotFound}

C1_Removal ==
  \A p \in posts \ posts' :
    \E r \in Requests :
      /\ At(r, "deletePost", "write")
      /\ calls[r].postId = p.id /\ calls[r].userId = p.authorId
      /\ calls'[r].pc = "revalidate"

-----------------------------------------------------------------------------
(* C2: parity of sequential toggles *)

Sequential(k) == toggles[k].seq /\ ~InFlight(k) /\ PostExists(k[2])

\* C2 as stated: after n toggleLike calls of user u on post p in strict sequence,
\* Like(u, p) exists iff n is odd.
C2_AsStated ==
  \A k \in LikeKeys : Sequential(k) => (Liked(k) <=> toggles[k].all % 2 = 1)

\* C2, amended: after strictly sequential toggleLike calls of user u on post p, n
\* of which returned success, Like(u, p) exists iff n is odd; a call that returns
\* {success: false} leaves the Like as it was.
C2_ParityOfSuccessfulToggles ==
  \A k \in LikeKeys : Sequential(k) => (Liked(k) <=> toggles[k].ok % 2 = 1)

C2_Witness ==
  \E k \in LikeKeys :
    Sequential(k) /\ toggles[k].ok = 2 /\ toggles[k].all = 3 /\ ~Liked(k)

-----------------------------------------------------------------------------
(* C3: interleaved toggles of one user on one post *)

\* C3: whatever the interleaving, no <<user, post>> key has more than one Like
\* row, and a toggleLike never raises: the store's duplicate-key rejection comes
\* back as the {success: false} envelope.
C3_AtMostOneLike ==
  /\ \A k \in LikeKeys : likes[k] <= 1
  /\ \A r \in Requests :
       Done(r, "toggleLike") =>
         /\ calls[r].result.kind \in {"envelope", "undefined"}
         /\ calls[r].logged = UniqueViolation =>
              calls[r].result = Fail("Failed to toggle like")

C3_Witness ==
  \E r, q \in Requests :
    /\ r # q
    /\ Done(r, "toggleLike") /\ calls[r].logged = UniqueViolation
    /\ Done(q, "toggleLike") /\ calls[q].result.success
    /\ calls[q].caller = calls[r].caller /\ calls[q].postId = calls[r].postId
    /\ likes[<<calls[r].caller, calls[r].postId>>] = 1

-----------------------------------------------------------------------------
(* C4: a Like or Comment and its Notification are written together *)

LikeHasNotification ==
  \A k \in LikeKeys :
    Liked(k) /\ AuthorOf(k[2]) # k[1] =>
      \E n \in LikeNotes(k[1], k[2]) : n.userId = AuthorOf(k[2])

NotificationHasLike ==
  \A n \in notifications : n.type = "LIKE" => Liked(<<n.creatorId, n.postId>>)

CommentHasNotification ==
  \A c \in comments :
    AuthorOf(c.postId) # c.authorId =>
      \E n \in notifications :
        /\ n.type = "COMMENT" /\ n.commentId = c.id /\ n.postId = c.postId
        /\ n.creatorId = c.authorId /\ n.userId = AuthorOf(c.postId)

NotificationHasComment ==
  \A n \in notifications :
    n.type = "COMMENT" => \E c \in comments : c.id = n.commentId

C4_WrittenTogether ==
  \A n \in notifications' \ notifications :
    n.type = "LIKE" =>
      likes'[<<n.creatorId, n.postId>>] = likes[<<n.creatorId, n.postId>>] + 1

-----------------------------------------------------------------------------
(* C5: the LIKE notification *)

C5_NoSelfNotification ==
  \A n \in notifications : n.type = "LIKE" => n.userId # n.creatorId

C5_LikeStep ==
  \A k \in LikeKeys :
    likes'[k] > likes[k] =>
      /\ likes[k] = 0
      /\ IF AuthorOf(k[2]) = k[1]
           THEN notifications' = notifications
           ELSE \E n \in notifications' \ notifications :
                  /\ notifications' = notifications \cup {n}
                  /\ n.type = "LIKE" /\ n.userId = AuthorOf(k[2])
                  /\ n.creatorId = k[1] /\ n.postId = k[2]

\* C5: toggleLike never writes a Notification whose recipient is its creator, so
\* liking one's own post writes none; the step that creates Like(u, p) for a user
\* u who is not p's author writes exactly one Notification, of kind LIKE, to p's
\* author, from u, about p.
C5_LikeNotification == [] C5_NoSelfNotification /\ [][C5_LikeStep]_vars

C5_Witness ==
  \E p \in posts :
    /\ \A u \in Users : Liked(<<u, p.id>>)
    /\ Cardinality(notifications) = 1

-----------------------------------------------------------------------------
(* C6: createComment without content *)

-----------------------------------------------------------------------------
(* C7: the COMMENT notification *)

C7_CommentStep ==
  \A c \in comments' \ comments :
    /\ comments' = comments \cup {c}
    /\ c.id = nextId.comment
    /\ \E r \in Requests :
         /\ At(r, "createComment", "write") /\ calls'[r].pc = "revalidate"
         /\ calls'[r].created = <<c.id>>
         /\ c.authorId = calls[r].userId /\ c.postId = calls[r].postId
    /\ IF AuthorOf(c.postId) = c.authorId
         THEN notifications' = notifications
         ELSE \E n \in notifications' \ notifications :
                /\ notifications' = notifications \cup {n}
                /\ n.type = "COMMENT" /\ n.userId = AuthorOf(c.postId)
                /\ n.creatorId = c.authorId /\ n.postId = c.postId
                /\ n.commentId = c.id

C7_Returned ==
  \A r \in Requests :
    Done(r, "createComment") /\ calls[r].result.success =>
      /\ calls[r].wrote /\ Len(calls[r].result.data) = 1
      /\ PostExists(calls[r].postId) =>
           \E c \in comments :
             /\ c.id = calls[r].result.data[1]
             /\ c.authorId = calls[r].userId /\ c.content = calls[r].content

\* C7: a createComment that returns success has written exactly one Comment, the
\* one it returns; when the commenter is not the post's author the same step
\* writes exactly one Notification, of kind COMMENT, to the post's author, whose
\* commentId is that comment's identifier; when the commenter is the author it
\* writes no Notification.
C7_CommentNotification == [] C7_Returned /\ [][C7_CommentStep]_vars

C7_Witness ==
  /\ \E c \in comments : AuthorOf(c.postId) = c.authorId
  /\ \E c \in comments :
       /\ AuthorOf(c.postId) # c.authorId
       /\ \E n \in notifications : n.commentId = c.id
  /\ Cardinality(notifications) = 1
  /\ \A r \in Requests : Done(r, "createComment") /\ calls[r].result.success

-----------------------------------------------------------------------------
(* C8: mutations fail soft *)

C8_NeverRaised ==
  \A r \in Requests :
    calls[r].op \in Mutations /\ calls[r].pc = "done" =>
      /\ calls[r].result.kind \in {"envelope", "undefined"}
      /\ calls[r].logged # "" =>
           calls[r].result.kind = "envelope" /\ ~calls[r].result.success

\* a step that changes a row belongs to a call that goes on to report success
C8_WritesSucceed ==
  \A r \in Requests :
    /\ rows' # rows /\ calls'[r] # calls[r] =>
         calls[r].op \in Mutations /\ calls'[r].pc = "revalidate"
    /\ calls[r].pc = "revalidate" /\ calls'[r] # calls[r] =>
         calls'[r].pc = "done" /\ calls'[r].result.success /\ rows' = rows

\* C8: whatever step of createPost, toggleLike, createComment or deletePost fails
\* (post not found, unauthorized delete, missing content, a rejection by the
\* identity resolver or by the store), the call does not raise: it returns a
\* {success: false, error} envelope, and no step of that call changed a Post,
\* Like, Comment or Notification row.
C8_FailSoft == [] C8_NeverRaised /\ [][C8_WritesSucceed]_vars

C8_Witness ==
  \E r, q \in Requests :
    /\ Done(r, "toggleLike") /\ calls[r].logged = ForeignKeyViolation
    /\ calls[r].result = Fail("Failed to toggle like")
    /\ Done(q, "deletePost") /\ calls[q].result.success

-----------------------------------------------------------------------------
(* C9: unlike leaves the notifications alone *)

C9_UnlikeStep ==
  \A k \in LikeKeys :
    likes'[k] < likes[k] /\ posts' = posts =>
      /\ likes' = [likes EXCEPT ![k] = 0]
      /\ notifications' = notifications
      /\ comments' = comments

C9_RelikeStep ==
  \A k \in LikeKeys :
    likes'[k] > likes[k] /\ AuthorOf(k[2]) # k[1] =>
      /\ LikeNotes(k[1], k[2]) \subseteq notifications'
      /\ Cardinality({n \in notifications' :
                        n.type = "LIKE" /\ n.creatorId = k[1] /\ n.postId = k[2]})
           = Cardinality(LikeNotes(k[1], k[2])) + 1

\* C9: the unlike branch of toggleLike removes the one Like row of its key and
\* nothing else: it writes and removes no Notification, so the LIKE Notification
\* of the earlier like stays, and a later like of the same post by the same
\* non-author adds a further LIKE Notification for the same creator and post.
C9_UnlikeKeepsNotifications == [][C9_UnlikeStep /\ C9_RelikeStep]_vars

C9_Witness ==
  \E k \in LikeKeys : Liked(k) /\ Cardinality(LikeNotes(k[1], k[2])) = 2

-----------------------------------------------------------------------------
(* C10: cache invalidation *)

\* C10: a createPost, toggleLike, createComment or deletePost call issues
\* revalidatePath("/") exactly once when it returns success, and then only after
\* its write; a call that fails, or that returns undefined because no identity
\* was resolved, issues none and has written nothing.
C10_RevalidateOnSuccess ==
  \A r \in Requests :
    /\ calls[r].revalidated > 0 => calls[r].wrote /\ calls[r].pc = "done"
    /\ calls[r].op \in Mutations /\ calls[r].pc = "done" =>
         /\ calls[r].result.success => calls[r].revalidated = 1
         /\ ~calls[r].result.success => calls[r].revalidated = 0
         /\ calls[r].result = Undefined =>
              /\ ~calls[r].wrote /\ calls[r].post = None /\ ~calls[r].existingLike
              /\ calls[r].userId = NULL /\ calls[r].op # "deletePost"

C10_Witness ==
  \E r, q \in Requests :
    /\ Done(r, "createPost") /\ calls[r].result.success /\ calls[r].revalidated = 1
    /\ Done(q, "createComment") /\ calls[q].result = Undefined
    /\ calls[q].revalidated = 0

====
